---------------------------- MODULE Spec2Model ----------------------------
(***************************************************************************)
(* Model of the rustdoc "implementors" data files of rsrl:                 *)
(*   src/implementors/std/error/trait.Error.js                             *)
(*   src/implementors/core/ops/trait.BitXor.js                             *)
(* Each file is an immediately invoked function that builds a table        *)
(* (library name -> array of description strings) by a run of property     *)
(* assignments and then hands it to window.register_implementors when that *)
(* global is truthy, or stores it in window.pending_implementors.          *)
(*                                                                         *)
(* A description string is modelled by a number that identifies its        *)
(* content: two strings of the sources get the same number exactly when    *)
(* they are the same text (the two HashSet/BTreeSet strings of BitXor      *)
(* appear under both "itertools" and "libc").                              *)
(***************************************************************************)
EXTENDS Integers, Sequences, FiniteSets, TLC

\* Number of script loads of one page that the model explores.
MaxLoads == 3

\* The two data files.
Scripts == {"Error", "BitXor"}

----------------------------------------------------------------------------
(* JavaScript values that occur: undefined, a reference to an object of    *)
(* the heap, and a function.                                               *)

Undefined == [type |-> "undefined", ref |-> 0]

Obj(r) == [type |-> "object", ref |-> r]

Fn == [type |-> "function", ref |-> 0]

\* The truthiness test of `if (window.register_implementors)`.
ToBoolean(v) == v.type # "undefined"

\* Whether a call expression `v(...)` can be evaluated without a TypeError.
IsCallable(v) == v.type = "function"

----------------------------------------------------------------------------
(* The table literals, statement by statement, in source order.            *)

ErrorAssignments ==
  << [key |-> "itertools", val |-> << >>],
     [key |-> "libc",      val |-> << >>],
     [key |-> "log",       val |-> <<1, 2>>],
     [key |-> "ndarray",   val |-> <<3>>],
     [key |-> "slog",      val |-> <<4, 5>>],
     [key |-> "time",      val |-> <<6, 7>>] >>

BitXorAssignments ==
  << [key |-> "itertools", val |-> <<8, 9>>],
     [key |-> "libc",      val |-> <<8, 9>>],
     [key |-> "ndarray",   val |-> <<10, 11, 12, 13, 14, 15, 16, 17, 18, 19, 20,
                                     21, 22, 23, 24, 25, 26, 27, 28, 29, 30, 31,
                                     32>>] >>

\* Mutant: the last statement of a file names the first library again.
AssignmentsRepeated(s) ==
  LET A == IF s = "Error" THEN ErrorAssignments ELSE BitXorAssignments
  IN  [i \in 1..Len(A) |->
         IF i = Len(A) THEN [key |-> A[1].key, val |-> A[i].val] ELSE A[i]]

Assignments(s) == IF s = "Error" THEN ErrorAssignments ELSE BitXorAssignments

\* A program with the hand-off one statement too early (used as a mutant).
ProgramEarly(s) ==
  LET A == Assignments(s)
      n == Len(A)
  IN  [i \in 1..(n + 1) |->
         IF i < n THEN [op |-> "assign", key |-> A[i].key, val |-> A[i].val]
         ELSE IF i = n THEN [op |-> "dispatch", key |-> "", val |-> << >>]
         ELSE [op |-> "assign", key |-> A[n].key, val |-> A[n].val]]

\* The body of the function after `var implementors = {};`: the assignments
\* in source order, then the if/else hand-off.
Program(s) ==
  LET A == Assignments(s)
      n == Len(A)
  IN  [i \in 1..(n + 1) |->
         IF i <= n THEN [op |-> "assign", key |-> A[i].key, val |-> A[i].val]
         ELSE [op |-> "dispatch", key |-> "", val |-> << >>]]

----------------------------------------------------------------------------
(* A JavaScript object with string keys: its own properties in insertion   *)
(* order.                                                                  *)

HasKey(t, k) == \E i \in 1..Len(t) : t[i].key = k

Keys(t) == [i \in 1..Len(t) |-> t[i].key]

KeySet(t) == {t[i].key : i \in 1..Len(t)}

Get(t, k) == LET i == CHOOSE j \in 1..Len(t) : t[j].key = k IN t[i].val

\* `t[k] = v`: an existing property keeps its place and gets the new value,
\* a new property is added last.
Put(t, k, v) ==
  IF HasKey(t, k)
  THEN [i \in 1..Len(t) |-> IF t[i].key = k THEN [key |-> k, val |-> v] ELSE t[i]]
  ELSE Append(t, [key |-> k, val |-> v])

----------------------------------------------------------------------------
VARIABLES
  globals,                \* the other properties of window the scripts name
  register_implementors,  \* window.register_implementors
  pending_implementors,   \* window.pending_implementors
  heap,                   \* the objects created by `{}`: heap[r] is a table
  loads,                  \* the script executions, in the order they started
  running,                \* the load whose script is executing, 0 when none
  calls,                  \* invocations of the registration function
  stores                  \* loads that assigned the pending slot, in order

vars == <<globals, register_implementors, pending_implementors, heap, loads, running,
          calls, stores>>

Init ==
  /\ globals = [implementors |-> Undefined]
  /\ register_implementors = Undefined
  /\ pending_implementors = Undefined
  /\ heap = << >>
  /\ loads = << >>
  /\ running = 0
  /\ calls = << >>
  /\ stores = << >>

\* The statement the load l is about to execute.
Stmt(l) == Program(loads[l].script)[loads[l].pc]

\* The load after its current statement: the function returns after the
\* last one.
Advance(ld) ==
  IF ld.pc >= Len(Program(ld.script))
  THEN [ld EXCEPT !.pc = ld.pc + 1, !.status = "returned"]
  ELSE [ld EXCEPT !.pc = ld.pc + 1]

\* The load after an uncaught exception.
Throw(ld) == [ld EXCEPT !.pc = Len(Program(ld.script)) + 1, !.status = "threw"]

Finished(ld) == ld.status # "running"

\* Mutant: the table variable is declared without `var` and becomes a
\* property of window.
LoadGlobal(s) ==
  /\ running = 0
  /\ Len(loads) < MaxLoads
  /\ heap' = Append(heap, << >>)
  /\ globals' = [globals EXCEPT !.implementors = Obj(Len(heap) + 1)]
  /\ loads' = Append(loads, [script |-> s, pc |-> 1, status |-> "running",
                             implementors |-> Obj(Len(heap) + 1)])
  /\ running' = Len(loads) + 1
  /\ UNCHANGED <<register_implementors, pending_implementors, calls, stores>>

\* A script starts: `(function() {var implementors = {};`.  Scripts of a
\* page run one at a time, each to completion.
Load(s) ==
  /\ running = 0
  /\ Len(loads) < MaxLoads
  /\ heap' = Append(heap, << >>)
  /\ loads' = Append(loads, [script |-> s, pc |-> 1, status |-> "running",
                             implementors |-> Obj(Len(heap) + 1)])
  /\ running' = Len(loads) + 1
  /\ UNCHANGED <<globals, register_implementors, pending_implementors, calls, stores>>

\* `implementors["k"] = [...];`
Assign(l) ==
  /\ running = l
  /\ Stmt(l).op = "assign"
  /\ LET r == loads[l].implementors.ref
     IN  heap' = [heap EXCEPT ![r] = Put(@, Stmt(l).key, Stmt(l).val)]
  /\ loads' = [loads EXCEPT ![l] = Advance(@)]
  /\ running' = IF Finished(loads'[l]) THEN 0 ELSE l
  /\ UNCHANGED <<globals, register_implementors, pending_implementors, calls, stores>>

\* The registration function is invoked with one argument; it observes the
\* table the argument refers to.
Invoke(l, arg) ==
  Append(calls, [by |-> l, arg |-> arg, seen |-> heap[arg.ref]])

\* Mutant: the table is delivered and also stored.
DispatchBoth(l) ==
  /\ running = l
  /\ Stmt(l).op = "dispatch"
  /\ IF ToBoolean(register_implementors)
     THEN /\ calls' = Invoke(l, loads[l].implementors)
          /\ pending_implementors' = loads[l].implementors
          /\ stores' = Append(stores, l)
          /\ loads' = [loads EXCEPT ![l] = Advance(@)]
     ELSE /\ pending_implementors' = loads[l].implementors
          /\ stores' = Append(stores, l)
          /\ loads' = [loads EXCEPT ![l] = Advance(@)]
          /\ UNCHANGED calls
  /\ running' = IF Finished(loads'[l]) THEN 0 ELSE l
  /\ UNCHANGED <<globals, register_implementors, heap>>

\* Mutant: the call is not guarded by the presence test.
DispatchUnguarded(l) ==
  /\ running = l
  /\ Stmt(l).op = "dispatch"
  /\ IF IsCallable(register_implementors)
     THEN /\ calls' = Invoke(l, loads[l].implementors)
          /\ loads' = [loads EXCEPT ![l] = Advance(@)]
     ELSE /\ loads' = [loads EXCEPT ![l] = Throw(@)]
          /\ UNCHANGED calls
  /\ running' = IF Finished(loads'[l]) THEN 0 ELSE l
  /\ UNCHANGED <<globals, register_implementors, pending_implementors, heap, stores>>

\* Mutant: the presence test is negated.
DispatchInverted(l) ==
  /\ running = l
  /\ Stmt(l).op = "dispatch"
  /\ IF ~ToBoolean(register_implementors)
     THEN IF IsCallable(register_implementors)
          THEN /\ calls' = Invoke(l, loads[l].implementors)
               /\ loads' = [loads EXCEPT ![l] = Advance(@)]
               /\ UNCHANGED <<pending_implementors, stores>>
          ELSE /\ loads' = [loads EXCEPT ![l] = Throw(@)]
               /\ UNCHANGED <<pending_implementors, calls, stores>>
     ELSE /\ pending_implementors' = loads[l].implementors
          /\ stores' = Append(stores, l)
          /\ loads' = [loads EXCEPT ![l] = Advance(@)]
          /\ UNCHANGED calls
  /\ running' = IF Finished(loads'[l]) THEN 0 ELSE l
  /\ UNCHANGED <<globals, register_implementors, heap>>

\* The properties of u assigned onto t, as Object.assign(t, u) does.
Merge(t, u) ==
  LET F[i \in 0..Len(u)] == IF i = 0 THEN t ELSE Put(F[i - 1], u[i].key, u[i].val)
  IN  F[Len(u)]

\* Mutant: the else branch accumulates into the table already pending.
DispatchMerge(l) ==
  /\ running = l
  /\ Stmt(l).op = "dispatch"
  /\ IF ToBoolean(register_implementors)
     THEN /\ calls' = Invoke(l, loads[l].implementors)
          /\ loads' = [loads EXCEPT ![l] = Advance(@)]
          /\ UNCHANGED <<pending_implementors, stores, heap>>
     ELSE /\ pending_implementors' = loads[l].implementors
          /\ heap' = IF pending_implementors = Undefined THEN heap
                     ELSE [heap EXCEPT ![loads[l].implementors.ref] =
                             Merge(heap[pending_implementors.ref], @)]
          /\ stores' = Append(stores, l)
          /\ loads' = [loads EXCEPT ![l] = Advance(@)]
          /\ UNCHANGED calls
  /\ running' = IF Finished(loads'[l]) THEN 0 ELSE l
  /\ UNCHANGED <<globals, register_implementors>>

\* The table without the libraries that have no implementor.
NonEmpty(t) == SelectSeq(t, LAMBDA e : e.val # << >>)

\* Mutant: libraries with an empty array are dropped before the hand-off.
DispatchFiltered(l) ==
  /\ running = l
  /\ Stmt(l).op = "dispatch"
  /\ heap' = [heap EXCEPT ![loads[l].implementors.ref] = NonEmpty(@)]
  /\ IF ToBoolean(register_implementors)
     THEN /\ calls' = Append(calls, [by |-> l, arg |-> loads[l].implementors,
                                     seen |-> heap'[loads[l].implementors.ref]])
          /\ loads' = [loads EXCEPT ![l] = Advance(@)]
          /\ UNCHANGED <<pending_implementors, stores>>
     ELSE /\ pending_implementors' = loads[l].implementors
          /\ stores' = Append(stores, l)
          /\ loads' = [loads EXCEPT ![l] = Advance(@)]
          /\ UNCHANGED calls
  /\ running' = IF Finished(loads'[l]) THEN 0 ELSE l
  /\ UNCHANGED <<globals, register_implementors>>

\* Mutant: a present registration function is also given the pending table.
DispatchRetry(l) ==
  /\ running = l
  /\ Stmt(l).op = "dispatch"
  /\ IF ToBoolean(register_implementors)
     THEN /\ calls' = IF pending_implementors = Undefined
                      THEN Invoke(l, loads[l].implementors)
                      ELSE Append(Invoke(l, pending_implementors),
                                  [by |-> l, arg |-> loads[l].implementors,
                                   seen |-> heap[loads[l].implementors.ref]])
          /\ loads' = [loads EXCEPT ![l] = Advance(@)]
          /\ UNCHANGED <<pending_implementors, stores>>
     ELSE /\ pending_implementors' = loads[l].implementors
          /\ stores' = Append(stores, l)
          /\ loads' = [loads EXCEPT ![l] = Advance(@)]
          /\ UNCHANGED calls
  /\ running' = IF Finished(loads'[l]) THEN 0 ELSE l
  /\ UNCHANGED <<globals, register_implementors, heap>>

\* Mutant: a present registration function is given the pending table when
\* there is one, instead of the load's own.
DispatchStale(l) ==
  /\ running = l
  /\ Stmt(l).op = "dispatch"
  /\ IF ToBoolean(register_implementors)
     THEN /\ calls' = IF pending_implementors = Undefined
                      THEN Invoke(l, loads[l].implementors)
                      ELSE Invoke(l, pending_implementors)
          /\ loads' = [loads EXCEPT ![l] = Advance(@)]
          /\ UNCHANGED <<pending_implementors, stores>>
     ELSE /\ pending_implementors' = loads[l].implementors
          /\ stores' = Append(stores, l)
          /\ loads' = [loads EXCEPT ![l] = Advance(@)]
          /\ UNCHANGED calls
  /\ running' = IF Finished(loads'[l]) THEN 0 ELSE l
  /\ UNCHANGED <<globals, register_implementors, heap>>

\* `if (window.register_implementors) { window.register_implementors(implementors); }
\*  else { window.pending_implementors = implementors; }`
Dispatch(l) ==
  /\ running = l
  /\ Stmt(l).op = "dispatch"
  /\ IF ToBoolean(register_implementors)
     THEN IF IsCallable(register_implementors)
          THEN /\ calls' = Invoke(l, loads[l].implementors)
               /\ loads' = [loads EXCEPT ![l] = Advance(@)]
               /\ UNCHANGED <<pending_implementors, stores>>
          ELSE /\ loads' = [loads EXCEPT ![l] = Throw(@)]
               /\ UNCHANGED <<pending_implementors, calls, stores>>
     ELSE /\ pending_implementors' = loads[l].implementors
          /\ stores' = Append(stores, l)
          /\ loads' = [loads EXCEPT ![l] = Advance(@)]
          /\ UNCHANGED calls
  /\ running' = IF Finished(loads'[l]) THEN 0 ELSE l
  /\ UNCHANGED <<globals, register_implementors, heap>>

\* The documentation viewer initialises and installs its registration
\* function (between scripts, never in the middle of one).
Install ==
  /\ running = 0
  /\ register_implementors = Undefined
  /\ register_implementors' = Fn
  /\ UNCHANGED <<globals, pending_implementors, heap, loads, running, calls, stores>>

\* The initialised viewer picks up the pending table and empties the slot.
Drain ==
  /\ running = 0
  /\ ToBoolean(register_implementors)
  /\ pending_implementors # Undefined
  /\ pending_implementors' = Undefined
  /\ UNCHANGED <<globals, register_implementors, heap, loads, running, calls, stores>>

Next ==
  \/ \E s \in Scripts : Load(s)
  \/ \E l \in 1..Len(loads) : Assign(l)
  \/ \E l \in 1..Len(loads) : Dispatch(l)
  \/ Install
  \/ Drain

Spec == Init /\ [][Next]_vars

\* A script that has started is executed statement by statement to its end.
FairSpec ==
  /\ Spec
  /\ \A l \in 1..MaxLoads : WF_vars(Assign(l)) /\ WF_vars(Dispatch(l))

----------------------------------------------------------------------------
TypeOK ==
  /\ DOMAIN globals = {"implementors"}
  /\ register_implementors \in {Undefined, Fn}
  /\ pending_implementors \in {Undefined} \cup {Obj(r) : r \in 1..Len(heap)}
  /\ Len(heap) = Len(loads)
  /\ running \in 0..Len(loads)
  /\ \A l \in 1..Len(loads) : loads[l].script \in Scripts

----------------------------------------------------------------------------
(* Vocabulary of the properties.                                           *)

\* The step in which load l executes its hand-off statement.
DispatchStep(l) ==
  /\ running = l
  /\ Stmt(l).op = "dispatch"
  /\ loads'[l].pc # loads[l].pc

\* The table the load l builds.
Own(l) == loads[l].implementors

Delivered(l) == {i \in DOMAIN calls : calls[i].by = l}

Stored(l) == {j \in DOMAIN stores : stores[j] = l}

LibraryNames(s) == {Assignments(s)[i].key : i \in 1..Len(Assignments(s))}

----------------------------------------------------------------------------
\* C1: when the registration function is present at the hand-off, it is
\* invoked exactly once, with the load's table as its argument, and the
\* pending slot keeps the value it had before, whatever that value was.
C1_PresentDelivers ==
  [][\A l \in 1..Len(loads) :
       (DispatchStep(l) /\ ToBoolean(register_implementors)) =>
          /\ Len(calls') = Len(calls) + 1
          /\ SubSeq(calls', 1, Len(calls)) = calls
          /\ calls'[Len(calls')].arg = Own(l)
          /\ calls'[Len(calls')].seen = heap[Own(l).ref]
          /\ pending_implementors' = pending_implementors]_vars

\* A table was delivered while the pending slot held an earlier table.
C1_Witness ==
  /\ pending_implementors # Undefined
  /\ \E i \in DOMAIN calls : calls[i].by > pending_implementors.ref
  /\ running = 0

\* C2: when the registration function is absent at the hand-off, the pending
\* slot afterwards is the load's table, with its content as built, and no
\* function has been invoked.
C2_AbsentStores ==
  [][\A l \in 1..Len(loads) :
       (DispatchStep(l) /\ ~ToBoolean(register_implementors)) =>
          /\ pending_implementors' = Own(l)
          /\ heap'[pending_implementors'.ref] = heap[Own(l).ref]
          /\ calls' = calls]_vars

\* A table sits in the pending slot and nothing was ever delivered.
C2_Witness ==
  /\ running = 0
  /\ calls = << >>
  /\ pending_implementors # Undefined
  /\ loads[pending_implementors.ref].status = "returned"

\* C3: every finished load has exactly one outcome, a delivery or a store,
\* and a load that has not reached its hand-off has none.
C3_ExactlyOne ==
  \A l \in 1..Len(loads) :
     LET n == Cardinality(Delivered(l)) + Cardinality(Stored(l))
     IN  IF Finished(loads[l]) THEN n = 1 ELSE n = 0

\* One load delivered and another stored.
C3_Witness ==
  /\ running = 0
  /\ \E l \in 1..Len(loads) : Delivered(l) # {} /\ Stored(l) = {}
  /\ \E l \in 1..Len(loads) : Stored(l) # {} /\ Delivered(l) = {}

\* C4: a second hand-off with the function still absent and the first table
\* still pending leaves the slot equal to the second table alone: the first
\* table is replaced, none of its libraries is carried over.
C4_Overwrite ==
  [][\A l \in 1..Len(loads) :
       (/\ DispatchStep(l)
        /\ ~ToBoolean(register_implementors)
        /\ pending_implementors # Undefined) =>
          LET T1 == heap[pending_implementors.ref]
              T2 == heap[Own(l).ref]
              S  == heap'[pending_implementors'.ref]
          IN  /\ pending_implementors' = Own(l)
              /\ pending_implementors' # pending_implementors
              /\ S = T2
              /\ \A k \in KeySet(T1) \ KeySet(T2) : ~HasKey(S, k)
              /\ \A k \in KeySet(T2) : Get(S, k) = Get(T2, k)
              /\ heap'[pending_implementors.ref] = T1]_vars

\* trait.Error.js then trait.BitXor.js were both stored, none drained.
C4_Witness ==
  /\ running = 0
  /\ register_implementors = Undefined
  /\ Len(stores) >= 2
  /\ loads[stores[Len(stores) - 1]].script = "Error"
  /\ loads[stores[Len(stores)]].script = "BitXor"
  /\ pending_implementors = Obj(stores[Len(stores)])

\* C5: the table seen by the registration function, and the table in the
\* pending slot, list the libraries of the file in source order, each with
\* its array as written: nothing reordered, deduplicated, filtered or
\* dropped, libraries with an empty array included.
C5_TablePreserved ==
  /\ \A i \in DOMAIN calls :
        /\ calls[i].arg = Own(calls[i].by)
        /\ calls[i].seen = Assignments(loads[calls[i].by].script)
  /\ \A j \in DOMAIN stores :
        Finished(loads[stores[j]]) =>
           heap[stores[j]] = Assignments(loads[stores[j]].script)
  /\ (pending_implementors # Undefined /\ running = 0) =>
        LET t == heap[pending_implementors.ref]
            A == Assignments(loads[pending_implementors.ref].script)
        IN  /\ Keys(t) = [i \in 1..Len(A) |-> A[i].key]
            /\ \A i \in 1..Len(A) : Get(t, A[i].key) = A[i].val

\* The Error table, with its two empty arrays, was delivered and a table
\* with a repeated array (BitXor) is pending.
C5_Witness ==
  /\ running = 0
  /\ \E i \in DOMAIN calls :
        /\ loads[calls[i].by].script = "Error"
        /\ Get(calls[i].seen, "libc") = << >>
  /\ pending_implementors # Undefined
  /\ loads[pending_implementors.ref].script = "BitXor"

C7_BuiltBeforeHandOff ==
  /\ \A l \in 1..Len(loads) :
        (running = l /\ Stmt(l).op = "dispatch") =>
           KeySet(heap[Own(l).ref]) = LibraryNames(loads[l].script)
  /\ \A i \in DOMAIN calls :
        KeySet(calls[i].seen) = LibraryNames(loads[calls[i].by].script)
  /\ pending_implementors # Undefined =>
        KeySet(heap[pending_implementors.ref]) =
           LibraryNames(loads[pending_implementors.ref].script)

\* A load stands at its hand-off with the table complete, while an earlier
\* table is pending.
C7_Witness ==
  /\ running # 0
  /\ Stmt(running).op = "dispatch"
  /\ Len(heap[Own(running).ref]) = Len(Assignments(loads[running].script))
  /\ pending_implementors # Undefined

\* C8: the pending slot is never assigned a table in a state where the
\* registration function is present, however loads and the installation of
\* the function interleave.
C8_NoStoreWhenPresent ==
  [][(pending_implementors' # pending_implementors
        /\ pending_implementors' # Undefined) =>
       (~ToBoolean(register_implementors)
          /\ ~ToBoolean(register_implementors'))]_vars

\* The function was installed between a load that stored and a load that
\* delivered.
C8_Witness ==
  /\ ToBoolean(register_implementors)
  /\ stores # << >>
  /\ calls # << >>
  /\ calls[1].by > stores[Len(stores)]

\* C9: while the registration function is absent, the pending slot holds the
\* table of the load that wrote it last, and what it holds is always the
\* complete table of one file, never a mixture of two.
C9_LastWriteWins ==
  (~ToBoolean(register_implementors) /\ stores # << >>) =>
     LET w == stores[Len(stores)]
     IN  /\ pending_implementors = Own(w)
         /\ heap[pending_implementors.ref] = Assignments(loads[w].script)
         /\ \A j \in DOMAIN stores : j < Len(stores) =>
               pending_implementors # Own(stores[j])

\* Three loads wrote the slot and the last writer's file differs from the
\* one before.
C9_Witness ==
  /\ ~ToBoolean(register_implementors)
  /\ Len(stores) >= 3
  /\ loads[stores[Len(stores)]].script # loads[stores[Len(stores) - 1]].script
  /\ running = 0

\* C10: a load hands off once and is over: every started load reaches its
\* end, a finished load never changes again, every invocation passes the
\* table of the load that is at its hand-off, and a table that was stored is
\* never an argument of the registration function, also after the function
\* has become present.
C10_SingleShot ==
  /\ \A l \in 1..MaxLoads :
        (running = l) ~> (l <= Len(loads) /\ running # l /\ Finished(loads[l]))
  /\ [][/\ \A l \in 1..Len(loads) : Finished(loads[l]) => loads'[l] = loads[l]
        /\ calls' # calls =>
             /\ running # 0
             /\ DispatchStep(running)
             /\ Finished(loads'[running])
             /\ \A i \in (DOMAIN calls') \ (DOMAIN calls) :
                   calls'[i].arg = Own(running)
        /\ \A i \in DOMAIN calls' : \A j \in DOMAIN stores' :
             calls'[i].arg # Own(stores'[j])
        /\ \A l \in 1..Len(loads') :
             Cardinality({i \in DOMAIN calls' : calls'[i].by = l})
               + Cardinality({j \in DOMAIN stores' : stores'[j] = l}) <= 1]_vars

\* A stored table is still pending after the function was installed and
\* two later loads have delivered theirs.
C10_Witness ==
  /\ running = 0
  /\ ToBoolean(register_implementors)
  /\ pending_implementors # Undefined
  /\ Stored(pending_implementors.ref) # {}
  /\ Len(calls) >= 2

\* C11: while the registration function is present, every load that ends
\* has been delivered exactly once; the invocations are in load order, each
\* with the table of its own load; and no step of a load changes the
\* pending slot, so the slot keeps the value it had when the sequence began.
C11_PresentSequence ==
  /\ [](/\ \A i \in DOMAIN calls :
             /\ calls[i].arg = Own(calls[i].by)
             /\ calls[i].seen = heap[Own(calls[i].by).ref]
             /\ \A j \in DOMAIN calls : i < j => calls[i].by < calls[j].by
        /\ ToBoolean(register_implementors) =>
             \A l \in 1..Len(loads) :
                (Finished(loads[l]) /\ Stored(l) = {}) =>
                   Cardinality(Delivered(l)) = 1
        /\ stores = << >> =>
             /\ pending_implementors = Undefined
             /\ \A l \in 1..Len(loads) :
                   Finished(loads[l]) => Cardinality(Delivered(l)) = 1)
  /\ [][(ToBoolean(register_implementors) /\ loads' # loads) =>
          pending_implementors' = pending_implementors]_vars

\* The function was present from the start: three loads in a row were
\* delivered and the slot still has its initial value.
C11_Witness ==
  /\ running = 0
  /\ stores = << >>
  /\ Len(calls) >= 3
  /\ pending_implementors = Undefined
  /\ \E i \in DOMAIN calls : \E j \in DOMAIN calls :
        loads[calls[i].by].script # loads[calls[j].by].script

\* C12: no step of a load writes window.register_implementors or any other
\* property of window than the pending slot, in either branch, and the
\* table variable is the load's own: it is no property of window and no
\* other load changes it.
C12_Frame ==
  /\ [][loads' # loads =>
          /\ register_implementors' = register_implementors
          /\ globals' = globals
          /\ \A l \in 1..Len(loads) :
                loads'[l].implementors = loads[l].implementors]_vars
  /\ [](/\ globals.implementors = Undefined
        /\ \A l \in 1..Len(loads) : \A m \in 1..Len(loads) :
              l # m => Own(l) # Own(m))

\* Loads have gone through both branches, with the function absent and
\* with it present.
C12_Witness ==
  /\ running = 0
  /\ Len(loads) >= 2
  /\ register_implementors = Fn
  /\ globals.implementors = Undefined
  /\ \E l \in 1..Len(loads) : Stored(l) # {}
  /\ \E l \in 1..Len(loads) : Delivered(l) # {}

\* The lengths of the arrays of a table, in the order of its libraries.
Lengths(t) == [i \in 1..Len(t) |-> Len(t[i].val)]

\* What a file is expected to hand off.
C13_Expected(t, s) ==
  IF s = "Error"
  THEN /\ Keys(t) = <<"itertools", "libc", "log", "ndarray", "slog", "time">>
       /\ Lengths(t) = <<0, 0, 2, 1, 2, 2>>
  ELSE /\ Keys(t) = <<"itertools", "libc", "ndarray">>
       /\ Lengths(t) = <<2, 2, 23>>

\* C13: within a load every assignment names a library not yet in the
\* table, so the table has one entry per library, and the table handed off
\* is: for trait.Error.js the libraries itertools, libc, log, ndarray, slog,
\* time with 0, 0, 2, 1, 2, 2 descriptions, for trait.BitXor.js the
\* libraries itertools, libc, ndarray with 2, 2, 23 descriptions.
C13_OneEntryPerLibrary ==
  /\ \A l \in 1..Len(loads) :
        LET t == heap[Own(l).ref]
        IN  /\ Cardinality(KeySet(t)) = Len(t)
            /\ running = l => Len(t) = loads[l].pc - 1
            /\ Finished(loads[l]) => C13_Expected(t, loads[l].script)
  /\ \A i \in DOMAIN calls :
        C13_Expected(calls[i].seen, loads[calls[i].by].script)
  /\ (pending_implementors # Undefined) =>
        C13_Expected(heap[pending_implementors.ref],
                     loads[pending_implementors.ref].script)

\* Both files have been handed off, one to the pending slot and one to the
\* registration function.
C13_Witness ==
  /\ running = 0
  /\ pending_implementors # Undefined
  /\ \E i \in DOMAIN calls :
        /\ loads[calls[i].by].script # loads[pending_implementors.ref].script
        /\ Len(calls[i].seen) \in {3, 6}

=============================================================================
